---- MODULE Spec2Model ----
(***************************************************************************)
(* Model of the batch URL checker (src/project/main.go): the input loader, *)
(* the Checker (checkURL), the worker pool built on two buffered channels  *)
(* and a WaitGroup, and the aggregator that sorts and reports.             *)
(*                                                                         *)
(* Strings that the program compares or searches (URLs, input lines, the   *)
(* search substring, response bodies) are sequences of byte values, so     *)
(* that prefix tests, trimming and the lexicographic order are computed.   *)
(* Error texts are only tested for emptiness and are TLA+ strings.         *)
(***************************************************************************)
EXTENDS Integers, Sequences, FiniteSets

\* ---- bounds ----
MaxTargets == 2     \* longest input file, in lines
MaxWorkers == 2     \* largest value of the -workers flag

\* ---- byte strings ----
HttpPrefix  == <<104, 116, 116, 112, 58, 47, 47>>          \* "http://"
HttpsPrefix == <<104, 116, 116, 112, 115, 58, 47, 47>>     \* "https://"

\* The lines an input file is made of: a blank line, a bare host with a
\* trailing blank, and one URL of each scheme.
InputLines ==
    { <<32>>,                                              \* " "
      <<97, 32>>,                                          \* "a "
      HttpsPrefix \o <<97>>,                               \* "https://a"
      HttpPrefix \o <<98>> }                               \* "http://b"

\* The values of the -contains flag: unset, or "k".
ContainsValues == { <<>>, <<107>> }

\* The values of the --json option after the manual parse: unset or a path.
JsonValues == { "", "results.json" }

IsSpace(c) == c \in {9, 10, 11, 12, 13, 32}

RECURSIVE TrimLeft(_)
TrimLeft(s) ==
    IF s # <<>> /\ IsSpace(Head(s)) THEN TrimLeft(Tail(s)) ELSE s

RECURSIVE TrimRight(_)
TrimRight(s) ==
    IF s # <<>> /\ IsSpace(s[Len(s)])
    THEN TrimRight(SubSeq(s, 1, Len(s) - 1))
    ELSE s

\* strings.TrimSpace
TrimSpace(s) == TrimRight(TrimLeft(s))

\* strings.HasPrefix
HasPrefix(s, p) == Len(s) >= Len(p) /\ SubSeq(s, 1, Len(p)) = p

\* strings.Contains
StrContains(s, sub) ==
    \E k \in 0..(Len(s) - Len(sub)) : SubSeq(s, k + 1, k + Len(sub)) = sub

\* Go's < on strings: bytewise lexicographic order.
RECURSIVE StrLess(_, _)
StrLess(s, t) ==
    IF t = <<>> THEN FALSE
    ELSE IF s = <<>> THEN TRUE
    ELSE IF Head(s) # Head(t) THEN Head(s) < Head(t)
    ELSE StrLess(Tail(s), Tail(t))

\* ---- input loader ----
\* readURLs: trim every line, keep the non-empty ones, in order.
RECURSIVE readURLs(_)
readURLs(ls) ==
    IF ls = <<>> THEN <<>>
    ELSE LET url == TrimSpace(Head(ls))
         IN  IF url # <<>> THEN <<url>> \o readURLs(Tail(ls))
             ELSE readURLs(Tail(ls))

\* The scheme loop with the http:// test left out.
NormalizeOne_OnlyHttps(u) ==
    IF ~HasPrefix(u, HttpsPrefix) THEN HttpsPrefix \o u ELSE u

\* The scheme loop of main: prefix https:// where no scheme is present.
NormalizeOne(u) ==
    IF ~HasPrefix(u, HttpPrefix) /\ ~HasPrefix(u, HttpsPrefix)
    THEN HttpsPrefix \o u
    ELSE u

Normalize(us) == [k \in 1..Len(us) |-> NormalizeOne(us[k])]

\* ---- Checker ----
\* What the network answers to one GET: either client.Get fails (getErr is
\* the error text) after ttfb ms, or headers arrive with a status after
\* ttfb ms and then io.ReadAll either fails (readErr) or yields the body.
Statuses == {200, 204, 299, 300, 404, 500}
Latencies == {0, 12}
Bodies == { <<>>, <<111, 107>>, <<110, 111>> }             \* "", "ok", "no"
GetErrors == { "no such host", "timeout" }
ReadErrors == { "unexpected EOF" }

Responses ==
    { [getErr |-> e, status |-> 0, ttfb |-> t, readErr |-> "",
       body |-> <<>>] : e \in GetErrors, t \in Latencies }
    \cup { [getErr |-> "", status |-> s, ttfb |-> t, readErr |-> e,
            body |-> <<>>] :
              s \in Statuses, t \in Latencies, e \in ReadErrors }
    \cup { [getErr |-> "", status |-> s, ttfb |-> t, readErr |-> "",
            body |-> b] :
              s \in Statuses, t \in Latencies, b \in Bodies }

\* The answers the pool's workers meet: a failed GET, a 200 whose body
\* holds the substring, a 200 whose body cannot be read.
PoolResponses ==
    { [getErr |-> "no such host", status |-> 0, ttfb |-> 12,
       readErr |-> "", body |-> <<>>],
      [getErr |-> "", status |-> 200, ttfb |-> 12,
       readErr |-> "", body |-> <<111, 107>>],
      [getErr |-> "", status |-> 200, ttfb |-> 12,
       readErr |-> "unexpected EOF", body |-> <<>>] }

\* Result{URL: url}: every other field is the zero value; Contains is a
\* *bool, modelled as the empty sequence (nil) or a one-element sequence.
NewResult(url) ==
    [URL |-> url, StatusCode |-> 0, OK |-> FALSE, TTFBMs |-> 0,
     SizeBytes |-> 0, Contains |-> <<>>, Error |-> ""]

\* checkURL with the body-read error dropped instead of recorded.
checkURL_DropReadError(url, r, sub) ==
    LET res == NewResult(url) IN
    IF r.getErr # ""
    THEN [res EXCEPT !.Error = r.getErr]
    ELSE LET hdr == [res EXCEPT !.TTFBMs = r.ttfb,
                                !.StatusCode = r.status,
                                !.OK = (r.status >= 200 /\ r.status < 300)]
         IN  IF r.readErr # ""
             THEN hdr
             ELSE LET full == [hdr EXCEPT !.SizeBytes = Len(r.body)]
                  IN  IF sub # <<>>
                      THEN [full EXCEPT
                              !.Contains = <<StrContains(r.body, sub)>>]
                      ELSE full

\* checkURL with the substring search done before the body-read error is
\* looked at.
checkURL_SearchBeforeErrCheck(url, r, sub) ==
    LET res == NewResult(url) IN
    IF r.getErr # ""
    THEN [res EXCEPT !.Error = r.getErr]
    ELSE LET hdr == [res EXCEPT !.TTFBMs = r.ttfb,
                                !.StatusCode = r.status,
                                !.OK = (r.status >= 200 /\ r.status < 300)]
             got == IF sub # <<>>
                    THEN [hdr EXCEPT
                            !.Contains = <<StrContains(r.body, sub)>>]
                    ELSE hdr
         IN  IF r.readErr # ""
             THEN [got EXCEPT !.Error = r.readErr]
             ELSE [got EXCEPT !.SizeBytes = Len(r.body)]

\* checkURL with the elapsed time taken before the GET error is looked at.
checkURL_TimeBeforeErrCheck(url, r, sub) ==
    LET res == [NewResult(url) EXCEPT !.TTFBMs = r.ttfb] IN
    IF r.getErr # ""
    THEN [res EXCEPT !.Error = r.getErr]
    ELSE LET hdr == [res EXCEPT !.StatusCode = r.status,
                                !.OK = (r.status >= 200 /\ r.status < 300)]
         IN  IF r.readErr # ""
             THEN [hdr EXCEPT !.Error = r.readErr]
             ELSE LET full == [hdr EXCEPT !.SizeBytes = Len(r.body)]
                  IN  IF sub # <<>>
                      THEN [full EXCEPT
                              !.Contains = <<StrContains(r.body, sub)>>]
                      ELSE full

\* checkURL as written.
checkURL(url, r, sub) ==
    LET res == NewResult(url) IN
    IF r.getErr # ""
    THEN [res EXCEPT !.Error = r.getErr]
    ELSE LET hdr == [res EXCEPT !.TTFBMs = r.ttfb,
                                !.StatusCode = r.status,
                                !.OK = (r.status >= 200 /\ r.status < 300)]
         IN  IF r.readErr # ""
             THEN [hdr EXCEPT !.Error = r.readErr]
             ELSE LET full == [hdr EXCEPT !.SizeBytes = Len(r.body)]
                  IN  IF sub # <<>>
                      THEN [full EXCEPT
                              !.Contains = <<StrContains(r.body, sub)>>]
                      ELSE full

\* ---- aggregator helpers ----
\* sort.Slice with less = (results[i].URL < results[j].URL).  For slices of
\* at most 12 elements Go's sort runs an insertion sort: each element moves
\* left while it is less than its left neighbour.
RECURSIVE InsertByURL(_, _)
InsertByURL(s, x) ==
    IF s # <<>> /\ StrLess(x.URL, s[Len(s)].URL)
    THEN InsertByURL(SubSeq(s, 1, Len(s) - 1), x) \o <<s[Len(s)]>>
    ELSE s \o <<x>>

\* The sort left out: results stay in arrival order.
SortByURL_Unsorted(rs) == rs

RECURSIVE SortByURL(_)
SortByURL(rs) ==
    IF rs = <<>> THEN <<>>
    ELSE InsertByURL(SortByURL(SubSeq(rs, 1, Len(rs) - 1)), rs[Len(rs)])

\* fmt.Sprintf("%d", n) for n >= 0, as a byte string.
RECURSIVE Itoa(_)
Itoa(n) ==
    IF n < 10 THEN <<48 + n>> ELSE Itoa(n \div 10) \o <<48 + (n % 10)>>

\* fmt.Sprintf("%t", b)
FormatBool(b) == IF b THEN "true" ELSE "false"

\* A row that prints the stored OK flag as it is.
TableRow_StoredFlag(r) ==
    [URL      |-> r.URL,
     Status   |-> IF r.StatusCode = 0 THEN <<45>> ELSE Itoa(r.StatusCode),
     OK       |-> FormatBool(r.OK),
     TTFB     |-> Itoa(r.TTFBMs),
     Bytes    |-> Itoa(r.SizeBytes),
     Contains |-> IF r.Contains # <<>> THEN FormatBool(r.Contains[1]) ELSE "-",
     Error    |-> r.Error]

\* One row of printTable.
TableRow(r) ==
    [URL      |-> r.URL,
     Status   |-> IF r.StatusCode = 0 THEN <<45>> ELSE Itoa(r.StatusCode),
     OK       |-> IF r.Error # "" THEN "false" ELSE FormatBool(r.OK),
     TTFB     |-> Itoa(r.TTFBMs),
     Bytes    |-> Itoa(r.SizeBytes),
     Contains |-> IF r.Contains # <<>> THEN FormatBool(r.Contains[1]) ELSE "-",
     Error    |-> r.Error]

printTable(rs) == [k \in 1..Len(rs) |-> TableRow(rs[k])]

\* json.MarshalIndent of one Result: the struct has no tags, so every field
\* is written under its own name; a nil *bool is written as null.
MarshalResult(r) ==
    [URL        |-> r.URL,
     StatusCode |-> r.StatusCode,
     OK         |-> FormatBool(r.OK),
     TTFBMs     |-> r.TTFBMs,
     SizeBytes  |-> r.SizeBytes,
     Contains   |-> IF r.Contains # <<>> THEN FormatBool(r.Contains[1])
                    ELSE "null",
     Error      |-> r.Error]

MarshalIndent(rs) == [k \in 1..Len(rs) |-> MarshalResult(rs[k])]

\* ---- state ----
VARIABLES
    fileErr,      \* the input file cannot be opened
    lines,        \* the lines of the input file
    workers,      \* -workers
    contains,     \* -contains
    jsonOutput,   \* --json destination, "" when not requested
    urls,         \* main's urls slice
    mainPC,       \* position of main
    idx,          \* loop counter of main's spawn and enqueue loops
    urlChan,      \* buffered items of urlChan
    urlClosed,    \* close(urlChan) has run
    resultChan,   \* buffered items of resultChan
    resultClosed, \* close(resultChan) has run
    wg,           \* the WaitGroup counter
    wpc,          \* position of each worker goroutine
    wurl,         \* the url a worker took from urlChan
    wline,        \* history: the input line that url came from
    made,         \* history: per input line, the Results checkURL returned
    closerPC,     \* position of the goroutine that closes resultChan
    results,      \* main's results slice
    arrived,      \* the results slice as the drain loop built it
    table,        \* rows written to stdout by printTable
    jsonFile,     \* what os.WriteFile stored
    stderr,       \* messages written to os.Stderr
    exitCode,     \* process exit status, -1 while running
    call          \* one checkURL call taken alone: arguments and Result

vars == <<fileErr, lines, workers, contains, jsonOutput, urls, mainPC, idx,
          urlChan, urlClosed, resultChan, resultClosed, wg, wpc, wurl,
          wline, made,
          closerPC, results, arrived, table, jsonFile, stderr,
          exitCode, call>>

inputs == <<fileErr, lines, workers, contains, jsonOutput>>
chans == <<urlChan, urlClosed, resultChan, resultClosed>>
wlocals == <<wpc, wurl, wline>>
report == <<table, jsonFile, stderr>>

Workers == 1..MaxWorkers

RECURSIVE SeqsUpTo(_, _)
SeqsUpTo(S, n) ==
    IF n = 0 THEN { <<>> }
    ELSE LET shorter == SeqsUpTo(S, n - 1)
         IN  shorter \cup { Append(s, x) : s \in shorter, x \in S }

\* The channels sized to the worker count instead of the target count.
Capacity_Workers == workers

\* make(chan ..., len(urls)): both channels have this capacity.
Capacity == Len(urls)

\* The state of the pool and of the report before main has done anything.
PoolStart ==
    /\ urls = <<>>
    /\ mainPC = "read"
    /\ idx = 0
    /\ urlChan = <<>> /\ urlClosed = FALSE
    /\ resultChan = <<>> /\ resultClosed = FALSE
    /\ wg = 0
    /\ wpc = [w \in Workers |-> "none"]
    /\ wurl = [w \in Workers |-> <<>>]
    /\ wline = [w \in Workers |-> 0]
    /\ made = [k \in 1..MaxTargets |-> <<>>]
    /\ closerPC = "none"
    /\ results = <<>> /\ arrived = <<>>
    /\ table = <<>>
    /\ jsonFile = [written |-> FALSE, data |-> <<>>]
    /\ stderr = <<>>
    /\ exitCode = -1

NoCall ==
    [state |-> "none", url |-> <<>>, resp |-> CHOOSE r \in Responses : TRUE,
     sub |-> <<>>, res |-> NewResult(<<>>),
     row |-> TableRow(NewResult(<<>>))]

\* A run of the program: the file, the flags, nothing started yet.
Init ==
    /\ fileErr \in BOOLEAN
    /\ lines \in SeqsUpTo(InputLines, MaxTargets)
    /\ fileErr => lines = <<>>
    /\ workers \in 0..MaxWorkers
    /\ contains \in ContainsValues
    /\ jsonOutput \in JsonValues
    /\ PoolStart
    /\ call = NoCall

\* ---- main: loading ----
\* readURLs fails: the error is reported and the process exits with 1.
ReadFail ==
    /\ mainPC = "read" /\ fileErr
    /\ stderr' = Append(stderr, "read error")
    /\ exitCode' = 1
    /\ mainPC' = "exited"
    /\ UNCHANGED <<call, made, inputs, urls, idx, chans, wg, wlocals, closerPC, results,
                   arrived, table, jsonFile>>

\* The empty list reported but os.Exit(1) left out: main goes on.
ReadEmpty_NoExit ==
    /\ mainPC = "read" /\ ~fileErr
    /\ readURLs(lines) = <<>>
    /\ stderr' = Append(stderr, "no urls")
    /\ mainPC' = "spawn"
    /\ UNCHANGED <<call, made, inputs, urls, idx, chans, wg, wlocals, closerPC,
                   results, arrived, table, jsonFile, exitCode>>

\* The file holds no URL: reported, exit 1.
ReadEmpty ==
    /\ mainPC = "read" /\ ~fileErr
    /\ readURLs(lines) = <<>>
    /\ stderr' = Append(stderr, "no urls")
    /\ exitCode' = 1
    /\ mainPC' = "exited"
    /\ UNCHANGED <<call, made, inputs, urls, idx, chans, wg, wlocals, closerPC, results,
                   arrived, table, jsonFile>>

\* The file holds URLs: they are normalized and the channels are made.
ReadOK ==
    /\ mainPC = "read" /\ ~fileErr
    /\ readURLs(lines) # <<>>
    /\ urls' = Normalize(readURLs(lines))
    /\ idx' = 0
    /\ mainPC' = "spawn"
    /\ UNCHANGED <<call, made, inputs, chans, wg, wlocals, closerPC, results, arrived,
                   report, exitCode>>

\* ---- main: the pool ----
\* One iteration of the spawn loop: wg.Add(1), then go func().
Spawn ==
    /\ mainPC = "spawn" /\ idx < workers
    /\ wg' = wg + 1
    /\ wpc' = [wpc EXCEPT ![idx + 1] = "recv"]
    /\ idx' = idx + 1
    /\ UNCHANGED <<call, made, inputs, urls, mainPC, chans, wurl, wline, closerPC,
                   results, arrived, report, exitCode>>

SpawnEnd ==
    /\ mainPC = "spawn" /\ ~(idx < workers)
    /\ idx' = 0
    /\ mainPC' = "enqueue"
    /\ UNCHANGED <<call, made, inputs, urls, chans, wg, wlocals, closerPC, results,
                   arrived, report, exitCode>>

\* urlChan <- u: blocks while the buffer is full.
Enqueue ==
    /\ mainPC = "enqueue" /\ idx < Len(urls)
    /\ Len(urlChan) < Capacity
    /\ urlChan' = Append(urlChan, urls[idx + 1])
    /\ idx' = idx + 1
    /\ UNCHANGED <<call, made, inputs, urls, mainPC, urlClosed, resultChan, resultClosed,
                   wg, wlocals, closerPC, results, arrived, report, exitCode>>

\* close(urlChan)
CloseURLChan ==
    /\ mainPC = "enqueue" /\ ~(idx < Len(urls))
    /\ urlClosed' = TRUE
    /\ mainPC' = "gocloser"
    /\ UNCHANGED <<call, made, inputs, urls, idx, urlChan, resultChan, resultClosed, wg,
                   wlocals, closerPC, results, arrived, report, exitCode>>

\* go func() { wg.Wait(); close(resultChan) }()
GoCloser ==
    /\ mainPC = "gocloser"
    /\ closerPC' = "wait"
    /\ mainPC' = "drain"
    /\ UNCHANGED <<call, made, inputs, urls, idx, chans, wg, wlocals, results, arrived,
                   report, exitCode>>

\* ---- workers ----
\* The input line the head of urlChan came from: the channel is FIFO and
\* idx lines have been enqueued.
HeadLine == idx - Len(urlChan) + 1

\* The receive that reads the head of urlChan without taking it out.
WorkerRecv_Peek(w) ==
    /\ wpc[w] = "recv"
    /\ urlChan # <<>>
    /\ wurl' = [wurl EXCEPT ![w] = Head(urlChan)]
    /\ wline' = [wline EXCEPT ![w] = HeadLine]
    /\ wpc' = [wpc EXCEPT ![w] = "check"]
    /\ UNCHANGED <<call, made, inputs, urls, mainPC, idx, urlChan, urlClosed,
                   resultChan, resultClosed, wg, closerPC, results, arrived,
                   report, exitCode>>

\* for url := range urlChan: take the next url.
WorkerRecv(w) ==
    /\ wpc[w] = "recv"
    /\ urlChan # <<>>
    /\ wurl' = [wurl EXCEPT ![w] = Head(urlChan)]
    /\ wline' = [wline EXCEPT ![w] = HeadLine]
    /\ urlChan' = Tail(urlChan)
    /\ wpc' = [wpc EXCEPT ![w] = "check"]
    /\ UNCHANGED <<call, made, inputs, urls, mainPC, idx, urlClosed, resultChan,
                   resultClosed, wg, closerPC, results, arrived,
                   report, exitCode>>

\* The range loop ends on the closed, empty channel; defer wg.Done().
WorkerExit(w) ==
    /\ wpc[w] = "recv"
    /\ urlChan = <<>> /\ urlClosed
    /\ wg' = wg - 1
    /\ wpc' = [wpc EXCEPT ![w] = "done"]
    /\ UNCHANGED <<call, made, inputs, urls, mainPC, idx, chans, wurl, wline,
                   closerPC, results, arrived, report, exitCode>>

\* resultChan <- checkURL(url, client, *contains): the call returns,
\* whatever the network answered, and the Result is sent.  The send blocks
\* while the buffer is full and panics once the channel is closed.  The
\* loop variable url ends with the iteration.
WorkerCheck(w) ==
    /\ wpc[w] = "check"
    /\ \E r \in PoolResponses :
          LET res == checkURL(wurl[w], r, contains) IN
          /\ made' = [made EXCEPT ![wline[w]] = Append(@, res)]
          /\ IF resultClosed
             THEN /\ wpc' = [wpc EXCEPT ![w] = "panic"]
                  /\ UNCHANGED <<resultChan, wurl, wline>>
             ELSE /\ Len(resultChan) < Capacity
                  /\ resultChan' = Append(resultChan, res)
                  /\ wurl' = [wurl EXCEPT ![w] = <<>>]
                  /\ wline' = [wline EXCEPT ![w] = 0]
                  /\ wpc' = [wpc EXCEPT ![w] = "recv"]
    /\ UNCHANGED <<call, inputs, urls, mainPC, idx, urlChan, urlClosed,
                   resultClosed, wg, closerPC, results, arrived, report,
                   exitCode>>

\* ---- the closing goroutine ----
\* wg.Wait() left out: the closing goroutine closes at once.
WaitReturns_NoWait == TRUE

\* wg.Wait() returns once the counter is zero.
WaitReturns == wg = 0

CloserWait ==
    /\ closerPC = "wait"
    /\ WaitReturns
    /\ closerPC' = "close"
    /\ UNCHANGED <<call, made, inputs, urls, mainPC, idx, chans, wg, wlocals, results,
                   arrived, report, exitCode>>

\* close(resultChan)
CloserClose ==
    /\ closerPC = "close"
    /\ resultClosed' = TRUE
    /\ closerPC' = "done"
    /\ UNCHANGED <<call, made, inputs, urls, mainPC, idx, urlChan, urlClosed, resultChan,
                   wg, wlocals, results, arrived, report, exitCode>>

\* ---- main: the aggregator ----
\* The drain loop that overwrites results instead of appending to it.
Drain_Overwrite ==
    /\ mainPC = "drain"
    /\ resultChan # <<>>
    /\ results' = <<Head(resultChan)>>
    /\ arrived' = Append(arrived, Head(resultChan))
    /\ resultChan' = Tail(resultChan)
    /\ UNCHANGED <<call, made, inputs, urls, mainPC, idx, urlChan, urlClosed,
                   resultClosed, wg, wlocals, closerPC, report, exitCode>>

\* for res := range resultChan: results = append(results, res)
Drain ==
    /\ mainPC = "drain"
    /\ resultChan # <<>>
    /\ results' = Append(results, Head(resultChan))
    /\ arrived' = Append(arrived, Head(resultChan))
    /\ resultChan' = Tail(resultChan)
    /\ UNCHANGED <<call, made, inputs, urls, mainPC, idx, urlChan, urlClosed,
                   resultClosed, wg, wlocals, closerPC, report, exitCode>>

\* The range loop ends on the closed, empty channel.
DrainEnd ==
    /\ mainPC = "drain"
    /\ resultChan = <<>> /\ resultClosed
    /\ mainPC' = "sort"
    /\ UNCHANGED <<call, made, inputs, urls, idx, chans, wg, wlocals, closerPC, results,
                   arrived, report, exitCode>>

\* sort.Slice(results, by URL)
Sort ==
    /\ mainPC = "sort"
    /\ results' = SortByURL(results)
    /\ mainPC' = "print"
    /\ UNCHANGED <<call, made, inputs, urls, idx, chans, wg, wlocals, closerPC, arrived,
                   report, exitCode>>

\* printTable(results, ...); then saveJSON if a destination was given,
\* else main returns.
PrintTable ==
    /\ mainPC = "print"
    /\ table' = printTable(results)
    /\ IF jsonOutput # ""
       THEN mainPC' = "json" /\ UNCHANGED exitCode
       ELSE mainPC' = "exited" /\ exitCode' = 0
    /\ UNCHANGED <<call, made, inputs, urls, idx, chans, wg, wlocals, closerPC, results,
                   arrived, jsonFile, stderr>>

\* saveJSON that ends the process with status 1 when the write fails.
SaveJSON_FatalOnError ==
    /\ mainPC = "json"
    /\ \E writeOK \in BOOLEAN :
          IF writeOK
          THEN /\ jsonFile' = [written |-> TRUE,
                               data |-> MarshalIndent(results)]
               /\ exitCode' = 0
               /\ UNCHANGED stderr
          ELSE /\ stderr' = Append(stderr, "json write error")
               /\ exitCode' = 1
               /\ UNCHANGED jsonFile
    /\ mainPC' = "exited"
    /\ UNCHANGED <<call, made, inputs, urls, idx, chans, wg, wlocals, closerPC,
                   results, arrived, table>>

\* saveJSON: os.WriteFile succeeds or fails; then main returns.
SaveJSON ==
    /\ mainPC = "json"
    /\ \E writeOK \in BOOLEAN :
          IF writeOK
          THEN /\ jsonFile' = [written |-> TRUE,
                               data |-> MarshalIndent(results)]
               /\ UNCHANGED stderr
          ELSE /\ stderr' = Append(stderr, "json write error")
               /\ UNCHANGED jsonFile
    /\ mainPC' = "exited"
    /\ exitCode' = 0
    /\ UNCHANGED <<call, made, inputs, urls, idx, chans, wg, wlocals, closerPC, results,
                   arrived, table>>

Next ==
    \/ ReadFail
    \/ ReadEmpty
    \/ ReadOK
    \/ Spawn
    \/ SpawnEnd
    \/ Enqueue
    \/ CloseURLChan
    \/ GoCloser
    \/ \E w \in Workers : WorkerRecv(w)
    \/ \E w \in Workers : WorkerExit(w)
    \/ \E w \in Workers : WorkerCheck(w)
    \/ CloserWait
    \/ CloserClose
    \/ Drain
    \/ DrainEnd
    \/ Sort
    \/ PrintTable
    \/ SaveJSON

Spec == Init /\ [][Next]_vars

\* Fair scheduling: main, every worker and the closing goroutine keep
\* running while they can, and every checkURL call returns.
MainStep ==
    \/ ReadFail \/ ReadEmpty \/ ReadOK \/ Spawn \/ SpawnEnd \/ Enqueue
    \/ CloseURLChan \/ GoCloser \/ Drain \/ DrainEnd \/ Sort \/ PrintTable
    \/ SaveJSON

WorkerStep(w) == WorkerRecv(w) \/ WorkerExit(w) \/ WorkerCheck(w)

CloserStep == CloserWait \/ CloserClose

FairSpec ==
    /\ Spec
    /\ WF_vars(MainStep)
    /\ \A w \in Workers : WF_vars(WorkerStep(w))
    /\ WF_vars(CloserStep)

\* ---- checkURL taken alone ----
\* The targets checkURL is called with: the normalized input lines.
Targets == { NormalizeOne(TrimSpace(l)) : l \in InputLines } \ { HttpsPrefix }

\* One call of checkURL: a target, the -contains value and the answer of
\* the network are given; the Result is then rendered as printTable does.
InitCheck ==
    /\ fileErr = FALSE /\ lines = <<>> /\ workers = 0
    /\ contains = <<>> /\ jsonOutput = ""
    /\ PoolStart
    /\ call \in [state : {"called"}, url : Targets, resp : Responses,
                 sub : ContainsValues, res : {NewResult(<<>>)},
                 row : {TableRow(NewResult(<<>>))}]

CheckReturn ==
    /\ call.state = "called"
    /\ call' = [call EXCEPT !.state = "returned",
                            !.res = checkURL(call.url, call.resp, call.sub)]
    /\ UNCHANGED <<made, inputs, urls, mainPC, idx, chans, wg, wlocals, closerPC,
                   results, arrived, report, exitCode>>

\* The Result returned is rendered as a table row.
CheckRender ==
    /\ call.state = "returned"
    /\ call' = [call EXCEPT !.state = "rendered", !.row = TableRow(call.res)]
    /\ UNCHANGED <<made, inputs, urls, mainPC, idx, chans, wg, wlocals, closerPC,
                   results, arrived, report, exitCode>>

NextCheck == CheckReturn \/ CheckRender

CheckSpec == InitCheck /\ [][NextCheck]_vars

\* ---- properties of checkURL ----
Returned == call.state = "returned"
GetFailed == call.resp.getErr # ""
ReadFailed == call.resp.getErr = "" /\ call.resp.readErr # ""
BodyRead == call.resp.getErr = "" /\ call.resp.readErr = ""

\* sub occurs in body at some offset, byte for byte.
Occurs(body, sub) ==
    \E k \in 1..Len(body) :
        /\ k + Len(sub) - 1 <= Len(body)
        /\ \A m \in 1..Len(sub) : body[k + m - 1] = sub[m]

\* C5 (as stated): for every Result of checkURL, Error is non-empty if and
\* only if StatusCode is 0.
C5_ErrorIffStatusZero ==
    Returned => (call.res.Error # "" <=> call.res.StatusCode = 0)

\* C5 (amended): Error is non-empty if and only if the GET failed or the
\* body could not be read; StatusCode is 0 when the GET failed and is the
\* received status code otherwise, also when the body read failed.
C5_ErrorIffGetOrReadFailed ==
    Returned =>
        /\ call.res.Error # "" <=> (GetFailed \/ ReadFailed)
        /\ GetFailed => call.res.StatusCode = 0
        /\ ~GetFailed => call.res.StatusCode = call.resp.status

C5_Witness ==
    /\ Returned /\ ReadFailed
    /\ call.res.Error # "" /\ call.res.StatusCode # 0

\* C6: for every Result of checkURL, OK is false whenever Error is
\* non-empty; OK true implies StatusCode in [200,300) and Error empty.
C6_SucceededImpliesNoError ==
    Returned =>
        /\ call.res.Error # "" => ~call.res.OK
        /\ call.res.OK => /\ call.res.StatusCode >= 200
                          /\ call.res.StatusCode < 300
                          /\ call.res.Error = ""

\* C7: Contains is present if and only if a non-empty substring was
\* configured and the body was read; when present it is true exactly when
\* the substring occurs in the body.
C7_ContainsPresence ==
    Returned =>
        /\ call.res.Contains # <<>> <=> (call.sub # <<>> /\ BodyRead)
        /\ call.res.Contains # <<>> =>
              (call.res.Contains[1] <=> Occurs(call.resp.body, call.sub))

C7_Witness ==
    /\ Returned /\ BodyRead /\ call.sub # <<>>
    /\ call.res.Contains = <<TRUE>>

\* C8: when the GET fails, the Result has StatusCode 0, a non-empty Error,
\* OK false, TTFBMs 0, SizeBytes 0 and no Contains, whatever the substring.
C8_TransportFailure ==
    (Returned /\ GetFailed) =>
        /\ call.res.StatusCode = 0
        /\ call.res.Error # ""
        /\ ~call.res.OK
        /\ call.res.TTFBMs = 0
        /\ call.res.SizeBytes = 0
        /\ call.res.Contains = <<>>

C8_Witness ==
    /\ Returned /\ GetFailed
    /\ call.sub # <<>> /\ call.resp.ttfb > 0
    /\ call.res.Error = call.resp.getErr

\* C9: when the body read fails, the Result has Error set to the cause, OK
\* false and SizeBytes 0, and StatusCode is the status received, for every
\* status code.
C9_BodyReadFailure ==
    (Returned /\ ReadFailed) =>
        /\ call.res.Error = call.resp.readErr
        /\ ~call.res.OK
        /\ call.res.SizeBytes = 0
        /\ call.res.StatusCode = call.resp.status

\* ---- properties of the pool ----
\* Number of positions of seq that hold x.
Count(seq, x) == Cardinality({k \in 1..Len(seq) : seq[k] = x})

Range(seq) == {seq[k] : k \in 1..Len(seq)}

URLsOf(rs) == [k \in 1..Len(rs) |-> rs[k].URL]

\* Two sequences hold the same elements, each as many times.
SameBag(a, b) ==
    \A x \in Range(a) \cup Range(b) : Count(a, x) = Count(b, x)

\* The drain loop of main has ended.
Collected ==
    \/ mainPC \in {"sort", "print", "json"}
    \/ mainPC = "exited" /\ exitCode = 0

\* sort.Slice has run.
Sorted ==
    \/ mainPC \in {"print", "json"}
    \/ mainPC = "exited" /\ exitCode = 0

Started == {w \in Workers : wpc[w] # "none"}

\* Workers inside checkURL, or holding a Result not yet sent.
InFlight == {w \in Workers : wpc[w] = "check"}

\* How many times url u has been handed to checkURL so far: the calls
\* running plus the Results they have produced.
Checked(u) ==
    Cardinality({w \in InFlight : wurl[w] = u})
      + Count(URLsOf(resultChan), u) + Count(URLsOf(results), u)

\* C1: once the drain loop has ended, results holds exactly one Result per
\* normalized input target: the same URLs, each as many times.
C1_OneOutcomePerTarget ==
    Collected => SameBag(URLsOf(results), urls)

\* C2: resultChan is closed only after every worker has returned: while it
\* is closed no started worker is running or holds an unsent Result, and no
\* worker has panicked on a send to the closed channel.
C2_CloseAfterWorkers ==
    /\ resultClosed =>
          /\ Cardinality(Started) = workers
          /\ \A w \in Started : wpc[w] = "done"
    /\ \A w \in Workers : wpc[w] # "panic"

C2_Witness ==
    /\ resultClosed /\ workers >= 2
    /\ Len(resultChan) >= 2
    /\ \A w \in Started : wpc[w] = "done"

\* C3: under fair scheduling a run that got its targets always completes:
\* every worker returns, resultChan is closed, the drain loop ends, and
\* every target has produced a Result.
C3_RunCompletes ==
    (mainPC = "spawn") ~>
        (/\ Collected
         /\ resultClosed
         /\ \A w \in Started : wpc[w] = "done"
         /\ Len(results) = Len(urls))

\* C4: at most `workers` checkURL calls are in flight, no target is handed
\* to checkURL twice, and once the run is collected none was skipped.
C4_BoundedExactlyOnce ==
    /\ Cardinality(InFlight) <= workers
    /\ \A u \in Range(urls) : Checked(u) <= Count(urls, u)
    /\ Collected => \A u \in Range(urls) : Checked(u) = Count(urls, u)

\* C10: the reported sequence is a permutation of the Results collected,
\* non-decreasing by URL, whatever the order of arrival.
C10_SortedPermutation ==
    Sorted =>
        /\ SameBag(results, arrived)
        /\ \A k \in 1..(Len(results) - 1) :
              ~StrLess(results[k + 1].URL, results[k].URL)

C10_Witness ==
    /\ Sorted
    /\ Len(results) >= 2
    /\ results # arrived
    /\ StrLess(results[1].URL, results[2].URL)

\* The Results of the run in input-line order: what one worker, taking
\* the lines one after the other, delivers.
InLineOrder == [k \in 1..Len(urls) |-> made[k][1]]

\* C11: with the Result of every input line fixed, the reported sequence
\* is the same for every interleaving and every worker count (from one
\* worker up): it is the sorted sequence a single worker produces, also
\* when a target occurs more than once.
C11_Deterministic ==
    (Sorted /\ workers >= 1) => results = SortByURL(InLineOrder)

\* s begins with p, byte for byte.
StartsWith(s, p) ==
    /\ Len(p) <= Len(s)
    /\ \A m \in 1..Len(p) : s[m] = p[m]

\* main has its target list.
Loaded == mainPC # "read" /\ exitCode # 1

\* C12: every line without http:// or https:// at its start becomes
\* "https://" + line, every other line is left as it is, and the list keeps
\* its length and order.
C12_Normalization ==
    Loaded =>
        LET ls == readURLs(lines) IN
        /\ Len(urls) = Len(ls)
        /\ \A k \in 1..Len(ls) :
              IF StartsWith(ls[k], HttpPrefix) \/ StartsWith(ls[k], HttpsPrefix)
              THEN urls[k] = ls[k]
              ELSE urls[k] = HttpsPrefix \o ls[k]

C12_Witness ==
    /\ Loaded /\ Len(urls) >= 2
    /\ urls[1] # readURLs(lines)[1]
    /\ urls[2] = readURLs(lines)[2]
    /\ StartsWith(urls[2], HttpPrefix)

\* C13: when the input cannot be read or holds no target, the process
\* exits with a non-zero status and nothing of the pool ever runs: no
\* worker is started, nothing is enqueued, checkURL is never called.
C13_FailFast ==
    (fileErr \/ readURLs(lines) = <<>>) =>
        /\ Started = {} /\ wg = 0 /\ closerPC = "none"
        /\ urlChan = <<>> /\ resultChan = <<>>
        /\ \A k \in 1..MaxTargets : made[k] = <<>>
        /\ mainPC \in {"read", "exited"}
        /\ mainPC = "exited" => exitCode = 1

C13_Witness ==
    /\ mainPC = "exited" /\ exitCode = 1
    /\ ~fileErr /\ Len(lines) >= 2
    /\ workers >= 1

\* C14 (as stated): when a search substring is set, every Result of the
\* final result set carries Contains.
C14_EveryOutcomeHasMatch ==
    (Collected /\ contains # <<>>) =>
        \A k \in 1..Len(results) : results[k].Contains # <<>>

\* C14 (amended): when a search substring is set, a Result of the final
\* result set carries Contains exactly when its Error is empty, that is
\* when the body was read; a failed GET or body read leaves it absent.
C14_MatchIffNoError ==
    (Collected /\ contains # <<>>) =>
        \A k \in 1..Len(results) :
            results[k].Contains # <<>> <=> results[k].Error = ""

C14_Witness ==
    /\ Collected /\ contains # <<>>
    /\ \E k \in 1..Len(results) : results[k].Contains # <<>>
    /\ \E k \in 1..Len(results) :
          results[k].Contains = <<>> /\ results[k].StatusCode = 0

\* C15: neither channel ever holds more than N items (N = number of
\* targets = capacity of both), so main's enqueue and a worker's send never
\* wait: whenever one of them is about to send, the buffer has room.
C15_NoProducerBlocks ==
    /\ Len(urlChan) <= Len(urls)
    /\ Len(resultChan) <= Len(urls)
    /\ (mainPC = "enqueue" /\ idx < Len(urls)) => Len(urlChan) < Capacity
    /\ \A w \in Workers : wpc[w] = "check" => Len(resultChan) < Capacity

C15_Witness ==
    /\ Len(urls) >= 2
    /\ Len(resultChan) = Len(urls)

\* C16: in the table row of every Result the success column is false when
\* Error is non-empty, even if the stored flag is true, and is the stored
\* flag otherwise; the status column is the placeholder exactly when
\* StatusCode is 0; the match column is the placeholder exactly when
\* Contains is absent.
C16_TableColumns ==
    call.state = "rendered" =>
        /\ call.row.OK =
              (IF call.res.Error # "" THEN "false"
               ELSE IF call.res.OK THEN "true" ELSE "false")
        /\ call.row.Status = <<45>> <=> call.res.StatusCode = 0
        /\ call.row.Contains = "-" <=> call.res.Contains = <<>>

C16_Witness ==
    /\ call.state = "rendered"
    /\ call.res.OK /\ call.res.Error # ""
    /\ call.row.OK = "false"
    /\ call.row.Status # <<45>>
    /\ call.row.Contains = "-"

\* One step of the run, seen from saveJSON: the write is the step main
\* takes after the table; it leaves table and results as they are and ends
\* the run with status 0 whether it succeeds or fails.
SaveJSONStep ==
    /\ mainPC = "json" =>
          /\ Len(table) = Len(results)
          /\ \A k \in 1..Len(results) : table[k].URL = results[k].URL
          /\ \A k \in 1..(Len(results) - 1) :
                ~StrLess(results[k + 1].URL, results[k].URL)
          /\ table' = table /\ results' = results
          /\ exitCode' = 0
          /\ IF jsonFile'.written
             THEN /\ Len(jsonFile'.data) = Len(results)
                  /\ \A k \in 1..Len(results) :
                        /\ jsonFile'.data[k].URL = results[k].URL
                        /\ jsonFile'.data[k].StatusCode = results[k].StatusCode
                        /\ jsonFile'.data[k].Error = results[k].Error
                  /\ stderr' = stderr
             ELSE /\ stderr' = Append(stderr, "json write error")
                  /\ jsonFile' = jsonFile
    /\ mainPC # "json" => jsonFile' = jsonFile

\* C17: the JSON write is attempted only after the table was rendered from
\* the sorted sequence, it stores that sequence in that order, and a failed
\* write is only reported on stderr: table, results and the exit status 0
\* are what they are after a successful write.
C17_JSONAfterTable == [][SaveJSONStep]_vars

C17_Witness ==
    /\ mainPC = "exited" /\ exitCode = 0
    /\ ~jsonFile.written
    /\ stderr = <<"json write error">>
    /\ Len(table) >= 2

\* Every Result checkURL has returned so far, by input line.
RECURSIVE MadeUpTo(_)
MadeUpTo(k) == IF k = 0 THEN <<>> ELSE MadeUpTo(k - 1) \o made[k]

AllMade == MadeUpTo(MaxTargets)

\* C18: Results are write-once: checkURL returns at most one Result per
\* input line, and the Results in resultChan and in results together are
\* exactly the Results returned, each once and with every field as
\* returned, before and after the sort.
C18_WriteOnce ==
    /\ \A k \in 1..MaxTargets : Len(made[k]) <= 1
    /\ SameBag(AllMade, resultChan \o results)
    /\ \A w \in Workers : wpc[w] # "panic"

C18_Witness ==
    /\ Sorted /\ Len(results) >= 2
    /\ results # arrived
    /\ results[1].Error # results[2].Error
    /\ \A k \in 1..Len(urls) : Len(made[k]) = 1

\* Targets main has not enqueued yet that equal u.
Pending(u) ==
    LET from == IF mainPC = "spawn" THEN 1
                ELSE IF mainPC = "enqueue" THEN idx + 1
                ELSE Len(urls) + 1
    IN  Cardinality({k \in from..Len(urls) : urls[k] = u})

\* C19: every input target is in exactly one place: not yet enqueued, in
\* urlChan, in flight in one worker, in resultChan as a Result, or in
\* results; for every URL the five counts add up to its count in the input.
C19_Conservation ==
    Loaded =>
        \A u \in Range(urls) \cup Range(urlChan)
                 \cup Range(URLsOf(resultChan)) \cup Range(URLsOf(results)) :
            Pending(u) + Count(urlChan, u)
              + Cardinality({w \in InFlight : wurl[w] = u})
              + Count(URLsOf(resultChan), u) + Count(URLsOf(results), u)
            = Count(urls, u)

C19_Witness ==
    /\ Loaded
    /\ Cardinality(InFlight) >= 1
    /\ Len(resultChan) >= 1
    /\ mainPC = "drain"

\* C20: for every Result of the final result set the success flag stored
\* in the JSON file equals the success value shown in its table row.
C20_ReportsAgree ==
    jsonFile.written =>
        \A k \in 1..Len(results) : jsonFile.data[k].OK = table[k].OK

====
